---- MODULE Spec2Model ----
(***************************************************************************)
(* State-machine model of the IELTS reading-practice application           *)
(* (src/index.tsx): the word tokenizer and normalizer, the translation     *)
(* dialog's lookup, the saved-word store with its Leitner scheduler and    *)
(* its persistence in localStorage, the vocabulary review view and the     *)
(* quiz view with its timeouts; and the two serverless handlers            *)
(* (src/netlify/functions/gemini.ts, src/unnamed/part_000).                *)
(*                                                                         *)
(* Strings are sequences of one-character tokens, so that toLowerCase,     *)
(* the two regular-expression replacements and split(/(\s+)/) are computed *)
(* character by character as the JavaScript computes them.  Characters     *)
(* outside ASCII are named: "rsquo" is U+2019, "cyr_ya"/"CYR_YA" are the   *)
(* Cyrillic ya in lower/upper case (inside the range U+0410..U+044F).      *)
(***************************************************************************)
EXTENDS Integers, Sequences, FiniteSets, TLC

\* ------------------------------------------------------------------ bounds

\* Size of the pool from which crypto.randomUUID() draws ids.
MaxIds == 3
\* Number of times the wall clock is observed to advance (a day each time).
MaxTicks == 1
\* getNextReviewDate is evaluated on the boxes 0 .. 5 + MaxOver.
MaxOver == 3

\* ------------------------------------------------------------ text helpers

\* JavaScript's null, as a record so that it compares with the records it stands in for.
NULL == [null |-> TRUE]

Min(a, b) == IF a <= b THEN a ELSE b

\* String.prototype.toLowerCase, one character.
LowerChar(c) ==
  CASE c = "A" -> "a"
    [] c = "B" -> "b"
    [] c = "C" -> "c"
    [] c = "S" -> "s"
    [] c = "CYR_YA" -> "cyr_ya"
    [] OTHER -> c

toLowerCase(s) == [i \in 1..Len(s) |-> LowerChar(s[i])]

\* \s of the regular expressions.
IsSpace(c) == c \in {" ", "\t", "\n"}

\* [\wА-Яа-я]: ASCII letters, digits, underscore, Cyrillic U+0410..U+044F.
IsWordChar(c) ==
  c \in {"a", "b", "c", "s", "A", "B", "C", "S", "0", "1", "_", "cyr_ya", "CYR_YA"}

\* .replace(/['’]s$/, '')
StripPossessive(s) ==
  IF Len(s) >= 2 /\ s[Len(s)] = "s" /\ s[Len(s) - 1] \in {"'", "rsquo"}
  THEN SubSeq(s, 1, Len(s) - 2)
  ELSE s

\* .replace(/^[^\wА-Яа-я]+|[^\wА-Яа-я]+$/g, '')
StripOuter(s) ==
  LET idx == {i \in 1..Len(s) : IsWordChar(s[i])}
  IN  IF idx = {} THEN <<>>
      ELSE LET first == CHOOSE i \in idx : \A j \in idx : i <= j
               last  == CHOOSE i \in idx : \A j \in idx : j <= i
           IN  SubSeq(s, first, last)

\* The cleanup expression shared by the tokenizer and the translation dialog.
cleanWord(segment) == StripOuter(StripPossessive(toLowerCase(segment)))

\* String.prototype.trim() === ''
IsBlank(s) == \A i \in 1..Len(s) : IsSpace(s[i])

\* Variant: split(/\s+/), without the capture group: the runs are dropped.
RECURSIVE SplitOnSpace_dropRuns(_)
SplitOnSpace_dropRuns(s) ==
  LET ws == {i \in 1..Len(s) : IsSpace(s[i])}
  IN  IF ws = {} THEN <<s>>
      ELSE LET i == CHOOSE k \in ws : \A m \in ws : k <= m
               after == {k \in i..Len(s) : ~IsSpace(s[k])}
               j == IF after = {} THEN Len(s)
                    ELSE (CHOOSE k \in after : \A m \in after : k <= m) - 1
           IN  <<SubSeq(s, 1, i - 1)>> \o SplitOnSpace_dropRuns(SubSeq(s, j + 1, Len(s)))

\* text.split(/(\s+)/): the pieces between whitespace runs, with the runs kept.
RECURSIVE SplitOnSpace(_)
SplitOnSpace(s) ==
  LET ws == {i \in 1..Len(s) : IsSpace(s[i])}
  IN  IF ws = {} THEN <<s>>
      ELSE LET i == CHOOSE k \in ws : \A m \in ws : k <= m
               after == {k \in i..Len(s) : ~IsSpace(s[k])}
               j == IF after = {} THEN Len(s)
                    ELSE (CHOOSE k \in after : \A m \in after : k <= m) - 1
           IN  <<SubSeq(s, 1, i - 1), SubSeq(s, i, j)>>
                 \o SplitOnSpace(SubSeq(s, j + 1, Len(s)))

splitParagraphIntoWords(text) ==
  LET parts == SplitOnSpace(text)
  IN  [i \in 1..Len(parts) |->
         IF IsBlank(parts[i])
         THEN [text |-> parts[i], id |-> i - 1, isWord |-> FALSE, word |-> <<>>]
         ELSE [text |-> parts[i], id |-> i - 1, isWord |-> TRUE,
               word |-> cleanWord(parts[i])]]

\* ------------------------------------------------- reading content, dictionary

\* The pre-baked quiz of the first passage: three items of two options each.
OFFLINE_QUIZ ==
  << [word |-> "w1", question |-> "q1", options |-> <<"o1", "o2">>,
      correctAnswerIndex |-> 0, explanation |-> "e1"],
     [word |-> "w2", question |-> "q2", options |-> <<"o1", "o2">>,
      correctAnswerIndex |-> 1, explanation |-> "e2"],
     [word |-> "w3", question |-> "q3", options |-> <<"o1", "o2">>,
      correctAnswerIndex |-> 0, explanation |-> "e3"] >>

\* The reading passages of ./constants (PASSAGES), reduced to two one-paragraph
\* passages: "Ab ab's" and "(c). Ab".  The same key occurs in different
\* spellings and in both paragraphs.  Passage.offlineQuiz is an optional list:
\* the first passage has one, the second has none, and the third, a stub with
\* no paragraphs yet, has the empty list.
PASSAGES ==
  << [id |-> 1, content |-> << <<"A", "b", " ", "a", "b", "'", "s">> >>,
      offlineQuiz |-> OFFLINE_QUIZ],
     [id |-> 2, content |-> << <<"(", "c", ")", ".", " ", "A", "b">> >>],
     [id |-> 3, content |-> <<>>, offlineQuiz |-> <<>>] >>

\* The pre-baked dictionary of ./constants (LOCAL_DICTIONARY): key -> {t, d, s}.
LOCAL_DICTIONARY ==
  [k \in {<<"a", "b">>} |-> [t |-> "t_ab", d |-> "d_ab", s |-> <<"syn_ab">>]]

\* Variant: the lookup uses a key that is never in the dictionary.
TranslationData_alwaysMisses(word) ==
  [isPrebaked  |-> FALSE,
   translation |-> <<"fallback", word>>,
   definition  |-> "Tap to save and review later.",
   synonyms    |-> <<>>]

\* TranslationModal's entry, data and isPrebaked for its word prop.  The
\* fallback translation `Перевод для "${word}"` is the pair of its fixed part
\* and the word quoted.
TranslationData(word) ==
  LET clean == cleanWord(word)
  IN  IF clean \in DOMAIN LOCAL_DICTIONARY
      THEN [isPrebaked  |-> TRUE,
            translation |-> LOCAL_DICTIONARY[clean].t,
            definition  |-> LOCAL_DICTIONARY[clean].d,
            synonyms    |-> LOCAL_DICTIONARY[clean].s]
      ELSE [isPrebaked  |-> FALSE,
            translation |-> <<"fallback", word>>,
            definition  |-> "Tap to save and review later.",
            synonyms    |-> <<>>]

\* What a tap on a word of the reading view hands to the translation dialog:
\* the tokenizer's key of the tapped segment and its paragraph.
Clickable ==
  UNION { UNION { { [word |-> it.word, context |-> PASSAGES[p].content[q]] :
                      it \in {x \in {splitParagraphIntoWords(PASSAGES[p].content[q])[i] :
                                       i \in 1..Len(SplitOnSpace(PASSAGES[p].content[q]))} :
                                x.isWord} } :
                  q \in 1..Len(PASSAGES[p].content) } :
          p \in 1..Len(PASSAGES) }

\* --------------------------------------------------------------- scheduler

REVIEW_INTERVALS == <<0, 1, 3, 7, 14, 30>>

\* Timestamps are JavaScript numbers (no overflow at these magnitudes); the
\* model's integers are 32-bit and 30 days of milliseconds do not fit.  Every
\* time value of the model is therefore counted in units of 1000 ms, and the
\* source's factor 24 * 60 * 60 * 1000 ms is 24 * 60 * 60 units.  The code only
\* adds and compares timestamps, which the scaling preserves.
MsPerDay == 24 * 60 * 60

\* getNextReviewDate(box), with t the value Date.now() returns.  The table is
\* 0-indexed in the source: REVIEW_INTERVALS[k] there is REVIEW_INTERVALS[k+1] here.
getNextReviewDate(box, t) ==
  LET days == REVIEW_INTERVALS[Min(box, Len(REVIEW_INTERVALS) - 1) + 1]
  IN  t + days * MsPerDay

\* ------------------------------------------------------------------- state

VARIABLES
  savedWords,        \* App: the saved-word list (useState)
  now,               \* the wall clock read by Date.now()
  last,              \* history: the last store operation, its inputs and pre-state
  currentTab,        \* App: the tab shown
  selectedWordData,  \* ReadingView: the tapped word of the open dialog, or NULL
  saved,             \* TranslationModal: the word of the open dialog was saved
  isQuizMode,        \* VocabularyView: a review session is shown
  quizWords,         \* VocabularyView: the cards of the session
  currentIdx,        \* VocabularyView: position of the card shown
  showBack,          \* VocabularyView: the card shows its back
  stage,             \* QuizView: 'SETUP' | 'LOADING' | 'PLAYING' | 'RESULT'
  selectedPassageId, \* QuizView: the passage chosen on the setup screen
  questions,         \* QuizView: the items of the session, shuffled
  currentQIndex,     \* QuizView: 0-based position of the item shown
  score,             \* QuizView: the score shown
  selectedOption,    \* QuizView: the option chosen on the item shown, -1 for null
  isAnswered,        \* QuizView: the item shown has been answered
  autoNextTimeoutRef,\* QuizView: id of the last auto-advance timeout, 0 for null
  quizTimers,        \* pending timeouts of the mounted QuizView
  orphanTimers,      \* kinds of pending timeouts whose QuizView was unmounted
  answerLog,         \* history: the answers accepted in the session, in order
  quizEvent,         \* history: the last event of the quiz view
  storage,           \* localStorage: the text under 'ielts_vocab_words'
  app,               \* the page: "off" | "running" | "failed"
  storeShape,        \* what kind of JavaScript value savedWords holds
  loadedFrom,        \* history: the kind of text the last start read from storage
  paragraph,         \* a paragraph handed to the tokenizer
  segments,          \* what the tokenizer made of it, <<>> before it ran
  tapped,            \* position of the tapped segment, 0 with no dialog open
  modalKey,          \* TranslationModal: its cleanWord
  modalData,         \* TranslationModal: its data
  req,               \* endpoint: the request and the handler it went to
  epPc,              \* endpoint: where the handler is
  upstream,          \* endpoint: how the generateContent call ended, "none" before
  responses          \* endpoint: the responses sent for the request, in order

storeVars == <<savedWords, now, last>>
readingVars == <<selectedWordData, saved>>
vocabVars == <<isQuizMode, quizWords, currentIdx, showBack>>
viewVars == <<currentTab, selectedWordData, saved, isQuizMode, quizWords, currentIdx, showBack>>
quizVars == <<stage, selectedPassageId, questions, currentQIndex, score, selectedOption,
              isAnswered, autoNextTimeoutRef, quizTimers, orphanTimers, answerLog, quizEvent>>
\* Everything outside the store, the reading view and the vocabulary view.
persistVars == <<storage, app, storeShape, loadedFrom>>
textVars == <<paragraph, segments, tapped, modalKey, modalData>>
endpointVars == <<req, epPc, upstream, responses>>
restVars == <<quizVars, persistVars, textVars, endpointVars>>
\* What the actions of the views leave alone.
outsideVars == <<storeVars, persistVars, textVars, endpointVars>>
vars == <<savedWords, now, last, currentTab, selectedWordData, saved,
          isQuizMode, quizWords, currentIdx, showBack, restVars>>

IdPool == 1..MaxIds

IdsOf(ws) == {ws[i].id : i \in 1..Len(ws)}

\* crypto.randomUUID(): an id no saved word carries.  Ids are only ever compared
\* for equality, so the least unused one stands for any fresh one.
FreshIds == IdPool \ IdsOf(savedWords)

randomUUID == CHOOSE i \in FreshIds : \A j \in FreshIds : i <= j

\* ------------------------------------------------------- translation dialog

\* TranslationModal: the record handed to onSave for the props (word, context).
NewSavedWord(word, context, id, t) ==
  LET data == TranslationData(word)
  IN  [id          |-> id,
       word        |-> cleanWord(word),
       translation |-> data.translation,
       definition  |-> data.definition,
       synonyms    |-> data.synonyms,
       context     |-> context,
       timestamp   |-> t,
       leitnerBox  |-> 0,
       nextReview  |-> t]

\* ------------------------------------------------------------------- store

\* A save that lets the newest lookup win: the entry with the same key is
\* replaced by the candidate.
handleSaveWord_overwrite(prev, newWord) ==
  IF \E i \in 1..Len(prev) : toLowerCase(prev[i].word) = toLowerCase(newWord.word)
  THEN [i \in 1..Len(prev) |->
          IF toLowerCase(prev[i].word) = toLowerCase(newWord.word)
          THEN newWord ELSE prev[i]]
  ELSE Append(prev, newWord)

\* A save without the duplicate check.
handleSaveWord_nodedup(prev, newWord) == Append(prev, newWord)

\* A save that puts the new word first: [newWord, ...prev].
handleSaveWord_prepend(prev, newWord) ==
  IF \E i \in 1..Len(prev) : toLowerCase(prev[i].word) = toLowerCase(newWord.word)
  THEN prev
  ELSE <<newWord>> \o prev

\* handleSaveWord's updater: prev -> next.
handleSaveWord(prev, newWord) ==
  IF \E i \in 1..Len(prev) : toLowerCase(prev[i].word) = toLowerCase(newWord.word)
  THEN prev
  ELSE Append(prev, newWord)

\* Variants of the store operations, each with one plausible slip; the claims
\* below are required to tell them from the operations of the source.
\* The update with a chosen box rule and a chosen argument of getNextReviewDate.
UpdateWith(prev, id, t, BoxRule(_), DateArg(_, _)) ==
  [i \in 1..Len(prev) |->
     IF prev[i].id # id THEN prev[i]
     ELSE LET newBox == BoxRule(prev[i].leitnerBox)
          IN  [prev[i] EXCEPT !.leitnerBox = newBox,
                              !.nextReview = getNextReviewDate(DateArg(prev[i].leitnerBox, newBox), t)]]

\* Clamp off by one: Math.min(box + 1, REVIEW_INTERVALS.length).
handleUpdateWordProgress_length(prev, id, success, t) ==
  UpdateWith(prev, id, t,
             LAMBDA b : IF success THEN Min(b + 1, Len(REVIEW_INTERVALS)) ELSE 0,
             LAMBDA old, new : new)

\* The two outcomes swapped: success resets, failure promotes.
handleUpdateWordProgress_swapped(prev, id, success, t) ==
  UpdateWith(prev, id, t,
             LAMBDA b : IF ~success THEN Min(b + 1, Len(REVIEW_INTERVALS) - 1) ELSE 0,
             LAMBDA old, new : new)

\* A failure demotes by one box instead of resetting.
handleUpdateWordProgress_demote(prev, id, success, t) ==
  UpdateWith(prev, id, t,
             LAMBDA b : IF success THEN Min(b + 1, Len(REVIEW_INTERVALS) - 1)
                        ELSE IF b > 0 THEN b - 1 ELSE 0,
             LAMBDA old, new : new)

\* The next review computed from the box the word had before the update.
handleUpdateWordProgress_stale(prev, id, success, t) ==
  UpdateWith(prev, id, t,
             LAMBDA b : IF success THEN Min(b + 1, Len(REVIEW_INTERVALS) - 1) ELSE 0,
             LAMBDA old, new : old)

\* The updated entry is taken out and put back at the end of the list.
handleUpdateWordProgress_requeue(prev, id, success, t) ==
  LET upd == UpdateWith(prev, id, t,
                        LAMBDA b : IF success THEN Min(b + 1, Len(REVIEW_INTERVALS) - 1) ELSE 0,
                        LAMBDA old, new : new)
  IN  SelectSeq(upd, LAMBDA w : w.id # id) \o SelectSeq(upd, LAMBDA w : w.id = id)

\* handleUpdateWordProgress's updater, with t the value Date.now() returns.
handleUpdateWordProgress(prev, id, success, t) ==
  [i \in 1..Len(prev) |->
     IF prev[i].id # id THEN prev[i]
     ELSE LET newBox == IF success
                        THEN Min(prev[i].leitnerBox + 1, Len(REVIEW_INTERVALS) - 1)
                        ELSE 0
          IN  [prev[i] EXCEPT !.leitnerBox = newBox,
                              !.nextReview = getNextReviewDate(newBox, t)]]

\* The filter predicate inverted: prev.filter(w => w.id === id).
onDeleteWord_inverted(prev, id) == SelectSeq(prev, LAMBDA w : w.id = id)

\* onDeleteWord's updater: prev.filter(w => w.id !== id).
onDeleteWord(prev, id) == SelectSeq(prev, LAMBDA w : w.id # id)

\* QuizView's state at its useState and useRef defaults; no timeout is pending.
QuizInit ==
  /\ stage = "SETUP"
  /\ selectedPassageId = PASSAGES[1].id
  /\ questions = <<>>
  /\ currentQIndex = 0
  /\ score = 0
  /\ selectedOption = -1
  /\ isAnswered = FALSE
  /\ autoNextTimeoutRef = 0
  /\ quizTimers = {}
  /\ orphanTimers = {}
  /\ answerLog = <<>>
  /\ quizEvent = [name |-> "mount", option |-> -1, accepted |-> FALSE, prev |-> 0]

\* The state after the first render: nothing persisted, the reading tab shown,
\* no dialog open, the vocabulary view's state at its useState defaults.
\* -------------------------------------------------------------- text input

\* Longest paragraph the tokenizer is run on, in characters.
MaxLen == 4

\* Letters in both cases, the possessive's two characters, punctuation, a blank.
Alphabet == {"a", "b", "A", "s", "'", ".", " "}

\* Every paragraph of at most MaxLen characters.
Paragraphs == UNION {[1..n -> Alphabet] : n \in 0..MaxLen}

\* No dialog: nothing tapped.
NoData == [isPrebaked |-> FALSE, translation |-> <<>>, definition |-> "", synonyms |-> <<>>]

\* No paragraph under the tokenizer, no dialog.
TextIdle ==
  /\ paragraph = <<>>
  /\ segments = <<>>
  /\ tapped = 0
  /\ modalKey = <<>>
  /\ modalData = NoData

\* ---------------------------------------------------------------- endpoint

\* No request under way.
EndpointIdle ==
  /\ req = [variant |-> "none", method |-> "none", body |-> "none", action |-> "none"]
  /\ epPc = "idle"
  /\ upstream = "none"
  /\ responses = <<>>

\* HTTP methods a request may carry.
Methods == {"GET", "POST", "PUT", "OPTIONS"}

\* What the handler finds as the request body.  The Netlify handler gets the
\* raw text (event.body): text that is not JSON, the JSON text null, or the
\* JSON text of an object.  The Firebase handler gets req.body as the framework
\* left it: undefined, a string it did not parse, or an object.
Bodies(variant) ==
  IF variant = "netlify" THEN {"garbage", "null", "object"}
  ELSE {"undefined", "string", "object"}

\* The action member of an object body; "missing" when there is none.
Actions == {"translate", "quiz", "other", "missing"}

\* Every request to either handler.
Requests ==
  UNION { { [variant |-> v, method |-> m, body |-> b,
             action |-> IF b = "object" THEN a ELSE "missing"] :
              m \in Methods, b \in Bodies(v), a \in Actions } :
          v \in {"netlify", "firebase"} }

\* A response: status code, and whether the body is JSON text.
Response(status, json) == [status |-> status, json |-> json]

\* statusCode 405 with the body "Method Not Allowed".
MethodNotAllowed == Response(405, FALSE)

\* statusCode 400 with the body "Invalid Action".
InvalidAction == Response(400, FALSE)

\* The catch block: statusCode 500 with JSON.stringify({ error: error.message }).
BackendError == Response(500, TRUE)

\* const { action, ... } = JSON.parse(event.body) / = req.body throws: text
\* that is not JSON, or a destructured null or undefined.
BodyThrows == req.body \in {"garbage", "null", "undefined"}

\* The method checks before the try block.
CheckMethod ==
  /\ epPc = "received"
  /\ IF req.variant = "firebase" /\ req.method = "OPTIONS"
     THEN /\ responses' = Append(responses, Response(204, FALSE))
          /\ epPc' = "done"
     ELSE IF req.method # "POST"
     THEN /\ responses' = Append(responses, MethodNotAllowed)
          /\ epPc' = "done"
     ELSE /\ epPc' = "try"
          /\ UNCHANGED responses
  /\ UNCHANGED <<storeVars, viewVars, quizVars, persistVars, textVars, req, upstream>>

\* The try block up to the first await: read the body, pick the branch.
Dispatch ==
  /\ epPc = "try"
  /\ IF BodyThrows
     THEN /\ responses' = Append(responses, BackendError)
          /\ epPc' = "done"
     ELSE IF req.action \in {"translate", "quiz"}
     THEN /\ epPc' = "awaiting"
          /\ UNCHANGED responses
     ELSE /\ responses' = Append(responses, InvalidAction)
          /\ epPc' = "done"
  /\ UNCHANGED <<storeVars, viewVars, quizVars, persistVars, textVars, req, upstream>>

\* await ai.models.generateContent(...) settles: with a response, or rejected.
UpstreamSettles ==
  \E outcome \in {"text", "throws"} :
    /\ epPc = "awaiting"
    /\ upstream' = outcome
    /\ responses' = Append(responses,
                           IF outcome = "text" THEN Response(200, TRUE) ELSE BackendError)
    /\ epPc' = "done"
    /\ UNCHANGED <<storeVars, viewVars, quizVars, persistVars, textVars, req>>

\* -------------------------------------------------------------- persistence

\* JavaScript values the store can hold: a list of saved words, or something
\* else that JSON can carry (null, a number, an object, a list whose elements
\* are not saved words).
JsList(ws) == [t |-> "list", v |-> ws]
JsOther(t) == [t |-> t, v |-> <<>>]

\* The members of a saved word in the order its literal writes them.
SavedWordKeys ==
  <<"id", "word", "translation", "definition", "synonyms", "context", "timestamp",
    "leitnerBox", "nextReview">>

\* JSON text of one saved word: its members as key/value pairs, in order.
EncodeWord(w) == [i \in 1..Len(SavedWordKeys) |-> <<SavedWordKeys[i], w[SavedWordKeys[i]]>>]

\* The object a JSON text of key/value pairs denotes.
DecodeWord(obj) ==
  [k \in {obj[i][1] : i \in 1..Len(obj)} |->
     obj[CHOOSE i \in 1..Len(obj) : obj[i][1] = k][2]]

\* JSON.stringify(value)
stringify(val) ==
  [kind |-> "json",
   doc  |-> [t |-> val.t, items |-> [i \in 1..Len(val.v) |-> EncodeWord(val.v[i])]]]

\* JSON.parse(text): the value, or a SyntaxError.
parse(text) ==
  IF text.kind = "json"
  THEN [ok |-> TRUE,
        val |-> [t |-> text.doc.t,
                 v |-> [i \in 1..Len(text.doc.items) |-> DecodeWord(text.doc.items[i])]]]
  ELSE [ok |-> FALSE, val |-> JsOther("null")]

\* The useState initializer of savedWords: saved ? JSON.parse(saved) : [],
\* where getItem gives null for a missing key.
loadSavedWords(text) ==
  IF text.kind \in {"missing", "empty"}
  THEN [ok |-> TRUE, val |-> JsList(<<>>)]
  ELSE parse(text)

\* The value of the savedWords state.
StoreValue(ws, shape) == IF shape = "list" THEN JsList(ws) ELSE JsOther(shape)

\* Variant: the effect serializes the list of the render before the change.
PersistEffect_stale(rerendered) ==
  /\ storage' = IF rerendered THEN stringify(StoreValue(savedWords, storeShape)) ELSE storage
  /\ UNCHANGED <<app, storeShape, loadedFrom>>

\* The effect on [savedWords]: setItem(key, JSON.stringify(savedWords)); it
\* runs after a render with a new savedWords value.
PersistEffect(rerendered) ==
  /\ storage' = IF rerendered THEN stringify(StoreValue(savedWords', storeShape)) ELSE storage
  /\ UNCHANGED <<app, storeShape, loadedFrom>>

\* The store is there and is a list: its handlers can run.
Usable == app = "running" /\ storeShape = "list"

\* The state of a started page with nothing persisted before.
PersistInit ==
  /\ storage = stringify(JsList(<<>>))
  /\ app = "running"
  /\ storeShape = "list"
  /\ loadedFrom = "missing"

\* The in-memory state of a page before and at its start.
MemoryInit ==
  /\ savedWords = <<>>
  /\ last = [op |-> "init", id |-> 0, success |-> FALSE, cand |-> NULL,
             before |-> <<>>, at |-> 0]
  /\ currentTab = "READING"
  /\ selectedWordData = NULL
  /\ saved = FALSE
  /\ isQuizMode = FALSE
  /\ quizWords = <<>>
  /\ currentIdx = 0
  /\ showBack = FALSE
  /\ QuizInit

Init ==
  /\ MemoryInit
  /\ now = 0
  /\ PersistInit
  /\ TextIdle
  /\ EndpointIdle

\* "Add to My Dictionary" in the translation dialog opened on a tapped word.
SaveWord ==
  \E c \in Clickable :
    /\ FreshIds # {}
    /\ LET newWord == NewSavedWord(c.word, c.context, randomUUID, now)
       IN  /\ savedWords' = handleSaveWord(savedWords, newWord)
           /\ last' = [op |-> "save", id |-> newWord.id, success |-> FALSE,
                       cand |-> newWord, before |-> savedWords, at |-> now]
    /\ PersistEffect(savedWords' # savedWords)
    /\ UNCHANGED <<now, viewVars, quizVars, textVars, endpointVars>>

\* handleUpdateWordProgress(id, success)
UpdateWordProgress ==
  \E id \in IdPool, success \in BOOLEAN :
    /\ savedWords' = handleUpdateWordProgress(savedWords, id, success, now)
    /\ last' = [op |-> "update", id |-> id, success |-> success, cand |-> NULL,
                before |-> savedWords, at |-> now]
    /\ PersistEffect(TRUE)
    /\ UNCHANGED <<now, viewVars, quizVars, textVars, endpointVars>>

\* onDeleteWord(id)
DeleteWord ==
  \E id \in IdPool :
    /\ savedWords' = onDeleteWord(savedWords, id)
    /\ last' = [op |-> "delete", id |-> id, success |-> FALSE, cand |-> NULL,
                before |-> savedWords, at |-> now]
    /\ PersistEffect(TRUE)
    /\ UNCHANGED <<now, viewVars, quizVars, textVars, endpointVars>>

\* Time passes between two events.
Tick ==
  /\ now + MsPerDay <= MaxTicks * MsPerDay
  /\ now' = now + MsPerDay
  /\ UNCHANGED <<savedWords, last, viewVars, restVars>>

\* The store under any sequence of its three operations, whatever their inputs.
Next == SaveWord \/ UpdateWordProgress \/ DeleteWord \/ Tick

Spec == Init /\ [][Next]_vars

\* --------------------------------------------------------- due words

\* A due test that leaves out the word whose review falls on this instant.
dueWords_strict(ws, t) == SelectSeq(ws, LAMBDA w : w.nextReview < t)

\* VocabularyView's `due`: words.filter(w => w.nextReview <= Date.now()), with
\* t the value Date.now() returns.
dueWords(ws, t) == SelectSeq(ws, LAMBDA w : w.nextReview <= t)

\* --------------------------------------------------------- the application

\* The orders [...words].sort(() => 0.5 - Math.random()) can produce: the
\* comparator answers at random, so every arrangement of the list is possible.
Shuffles(ws) ==
  {[k \in 1..Len(ws) |-> ws[f[k]]] :
     f \in {g \in [1..Len(ws) -> 1..Len(ws)] :
              \A a, b \in 1..Len(ws) : a # b => g[a] # g[b]}}

\* VocabularyView's state when the view is mounted.
VocabMounted ==
  /\ isQuizMode' = FALSE
  /\ quizWords' = <<>>
  /\ currentIdx' = 0
  /\ showBack' = FALSE

\* QuizView's state when the view is mounted.  The timeouts of the view that
\* was unmounted are not cleared: they stay pending and, when they fire, set the
\* state of a component that is gone.
QuizMounted ==
  /\ stage' = "SETUP"
  /\ selectedPassageId' = PASSAGES[1].id
  /\ questions' = <<>>
  /\ currentQIndex' = 0
  /\ score' = 0
  /\ selectedOption' = -1
  /\ isAnswered' = FALSE
  /\ autoNextTimeoutRef' = 0
  /\ quizTimers' = {}
  /\ orphanTimers' = orphanTimers \cup {t.kind : t \in quizTimers}
  /\ answerLog' = <<>>
  /\ quizEvent' = [name |-> "mount", option |-> -1, accepted |-> FALSE,
                 prev |-> score]

\* A header button: setCurrentTab(t).  The view of the tab left is unmounted
\* and its state is lost.  The open dialog covers the header.
\* QuizView renders PLAYING from curQ = questions[currentQIndex] and reads
\* curQ.word: with no such item the render throws and, with no error boundary
\* around it, React takes the whole page down.
QuizRenderThrows == stage = "PLAYING" /\ currentQIndex >= Len(questions)

SetCurrentTab ==
  \E t \in {"READING", "VOCABULARY", "QUIZ"} :
    /\ selectedWordData = NULL
    /\ ~QuizRenderThrows
    /\ currentTab' = t
    /\ IF t = currentTab THEN UNCHANGED <<vocabVars, quizVars>>
       ELSE VocabMounted /\ QuizMounted
    /\ UNCHANGED <<outsideVars, readingVars>>

\* A tap on a word of the passage: setSelectedWordData({word, context}).
TapWord ==
  \E c \in Clickable :
    /\ currentTab = "READING"
    /\ selectedWordData = NULL
    /\ selectedWordData' = c
    /\ saved' = FALSE
    /\ UNCHANGED <<storeVars, currentTab, vocabVars, restVars>>

\* "Add to My Dictionary": onSave(...), setSaved(true), setTimeout(onClose, 800).
ModalSave ==
  /\ selectedWordData # NULL
  /\ ~saved
  /\ FreshIds # {}
  /\ LET newWord == NewSavedWord(selectedWordData.word, selectedWordData.context,
                                 randomUUID, now)
     IN  /\ savedWords' = handleSaveWord(savedWords, newWord)
         /\ last' = [op |-> "save", id |-> newWord.id, success |-> FALSE,
                     cand |-> newWord, before |-> savedWords, at |-> now]
  /\ saved' = TRUE
  /\ PersistEffect(savedWords' # savedWords)
  /\ UNCHANGED <<now, currentTab, selectedWordData, vocabVars, quizVars, textVars, endpointVars>>

\* onClose: the close button, a tap outside the dialog, or the timer set by
\* the save.  The dialog is unmounted.
ModalClose ==
  /\ selectedWordData # NULL
  /\ selectedWordData' = NULL
  /\ saved' = FALSE
  /\ UNCHANGED <<storeVars, currentTab, vocabVars, restVars>>

\* The delete button of a card of the dictionary list.
ClickDelete ==
  \E i \in 1..Len(savedWords) :
    /\ currentTab = "VOCABULARY"
    /\ ~isQuizMode
    /\ savedWords' = onDeleteWord(savedWords, savedWords[i].id)
    /\ last' = [op |-> "delete", id |-> savedWords[i].id, success |-> FALSE,
                cand |-> NULL, before |-> savedWords, at |-> now]
    /\ PersistEffect(TRUE)
    /\ UNCHANGED <<now, currentTab, readingVars, vocabVars, quizVars, textVars, endpointVars>>

\* START REVIEW: setQuizWords(shuffled words), setIsQuizMode(true).
StartReview ==
  \E order \in Shuffles(savedWords) :
    /\ currentTab = "VOCABULARY"
    /\ ~isQuizMode
    /\ Len(savedWords) # 0
    /\ quizWords' = order
    /\ isQuizMode' = TRUE
    /\ last' = [op |-> "start", id |-> 0, success |-> FALSE, cand |-> NULL,
                before |-> savedWords, at |-> now]
    /\ UNCHANGED <<savedWords, now, currentTab, readingVars, currentIdx, showBack, restVars>>

\* A tap on the card: setShowBack(!showBack).
FlipCard ==
  /\ currentTab = "VOCABULARY"
  /\ isQuizMode
  /\ currentIdx < Len(quizWords)
  /\ showBack' = ~showBack
  /\ UNCHANGED <<storeVars, currentTab, readingVars, isQuizMode, quizWords, currentIdx, restVars>>

\* FORGOT (success = FALSE) or EASY (success = TRUE) on the card shown.
RateCard ==
  \E success \in BOOLEAN :
    /\ currentTab = "VOCABULARY"
    /\ isQuizMode
    /\ currentIdx < Len(quizWords)
    /\ showBack
    /\ LET card == quizWords[currentIdx + 1]
       IN  /\ savedWords' = handleUpdateWordProgress(savedWords, card.id, success, now)
           /\ last' = [op |-> "update", id |-> card.id, success |-> success,
                       cand |-> NULL, before |-> savedWords, at |-> now]
    /\ currentIdx' = currentIdx + 1
    /\ showBack' = FALSE
    /\ PersistEffect(TRUE)
    /\ UNCHANGED <<now, currentTab, readingVars, isQuizMode, quizWords, quizVars, textVars, endpointVars>>

\* "Back to Dictionary" on the Session Complete screen: setIsQuizMode(false).
BackToDictionary ==
  /\ currentTab = "VOCABULARY"
  /\ isQuizMode
  /\ currentIdx >= Len(quizWords)
  /\ isQuizMode' = FALSE
  /\ UNCHANGED <<storeVars, currentTab, readingVars, quizWords, currentIdx, showBack, restVars>>

\* ------------------------------------------------------- start and reload

\* A saved word as an earlier run of the page may have left it in storage.
StoredWord == NewSavedWord(<<"a", "b">>, <<"A", "b">>, 1, 0)

\* What the page may find under its key when it starts: nothing, the empty
\* text, text that is not JSON, JSON of something that is no list of saved
\* words, and JSON of such lists.
StoredTexts ==
  { [kind |-> "missing", doc |-> <<>>],
    [kind |-> "empty", doc |-> <<>>],
    [kind |-> "garbage", doc |-> <<>>],
    stringify(JsOther("null")),
    stringify(JsOther("number")),
    stringify(JsOther("object")),
    stringify(JsOther("badlist")),
    stringify(JsList(<<>>)),
    stringify(JsList(<<StoredWord>>)) }

\* What a text is: "missing", "empty", "garbage", or the kind of value its
\* JSON denotes.
KindOf(text) == IF text.kind = "json" THEN text.doc.t ELSE text.kind

\* The page before its start, over whatever is in storage.
InitBoot ==
  /\ MemoryInit
  /\ now = 0
  /\ storage \in StoredTexts
  /\ app = "off"
  /\ storeShape = "list"
  /\ loadedFrom = "none"
  /\ TextIdle
  /\ EndpointIdle

\* The first render of App and its mount effect.  An exception of the
\* initializer is caught nowhere: the page stays blank.
AppStart ==
  /\ app = "off"
  /\ loadedFrom' = KindOf(storage)
  /\ LET r == loadSavedWords(storage)
     IN  IF r.ok
         THEN /\ app' = "running"
              /\ storeShape' = r.val.t
              /\ savedWords' = r.val.v
              /\ storage' = stringify(r.val)
         ELSE /\ app' = "failed"
              /\ UNCHANGED <<storeShape, savedWords, storage>>
  /\ UNCHANGED <<now, last, viewVars, quizVars, textVars, endpointVars>>

\* A store that is no list of saved words meets code that uses it as one
\* (prev.find, savedWords.find, words.filter, w.word): a TypeError.
UseBrokenStore ==
  /\ app = "running"
  /\ storeShape # "list"
  /\ app' = "failed"
  /\ UNCHANGED <<storeVars, viewVars, quizVars, textVars, endpointVars, storage, storeShape, loadedFrom>>

\* The user reloads the page: memory is gone, storage stays.
Reload ==
  /\ app # "off"
  /\ app' = "off"
  /\ savedWords' = <<>>
  /\ last' = [op |-> "init", id |-> 0, success |-> FALSE, cand |-> NULL,
              before |-> <<>>, at |-> 0]
  /\ storeShape' = "list"
  /\ UNCHANGED <<now, viewVars, quizVars, textVars, endpointVars, storage, loadedFrom>>

\* The store of a page that is started, used and reloaded.
NextPersist ==
  \/ AppStart
  \/ UseBrokenStore
  \/ Reload
  \/ Usable /\ SaveWord
  \/ Usable /\ UpdateWordProgress
  \/ Usable /\ DeleteWord

SpecPersist == InitBoot /\ [][NextPersist]_vars

\* ------------------------------------------- tokenizer and dialog on any text

\* A paragraph of any content is about to be rendered.
InitText ==
  /\ MemoryInit
  /\ now = 0
  /\ PersistInit
  /\ paragraph \in Paragraphs
  /\ segments = <<>>
  /\ tapped = 0
  /\ modalKey = <<>>
  /\ modalData = NoData
  /\ EndpointIdle

\* ReadingView renders the paragraph: splitParagraphIntoWords(paragraph).
Tokenize ==
  /\ segments = <<>>
  /\ segments' = splitParagraphIntoWords(paragraph)
  /\ UNCHANGED <<storeVars, viewVars, quizVars, persistVars, endpointVars, paragraph, tapped, modalKey,
                 modalData>>

\* A tap on a word segment opens TranslationModal with word = item.word.
TapSegment ==
  \E i \in 1..Len(segments) :
    /\ tapped = 0
    /\ segments[i].isWord
    /\ tapped' = i
    /\ modalKey' = cleanWord(segments[i].word)
    /\ modalData' = TranslationData(segments[i].word)
    /\ UNCHANGED <<storeVars, viewVars, quizVars, persistVars, endpointVars, paragraph, segments>>

\* The dialog is closed.
CloseModal ==
  /\ tapped # 0
  /\ tapped' = 0
  /\ modalKey' = <<>>
  /\ modalData' = NoData
  /\ UNCHANGED <<storeVars, viewVars, quizVars, persistVars, endpointVars, paragraph, segments>>

NextText == Tokenize \/ TapSegment \/ CloseModal

SpecText == InitText /\ [][NextText]_vars

\* ------------------------------------------------- the endpoint on any request

\* A request arrives, at either handler.
InitEndpoint ==
  /\ MemoryInit
  /\ now = 0
  /\ PersistInit
  /\ TextIdle
  /\ req \in Requests
  /\ epPc = "received"
  /\ upstream = "none"
  /\ responses = <<>>

NextEndpoint == CheckMethod \/ Dispatch \/ UpstreamSettles

SpecEndpoint == InitEndpoint /\ [][NextEndpoint]_vars

\* ---------------------------------------------------------------- quiz view

\* passages.find(p => p.id === selectedPassageId), as a set of positions.
FindPassage(id) == {p \in 1..Len(PASSAGES) : PASSAGES[p].id = id}

\* if (passage.offlineQuiz)
HasOfflineQuiz(p) == "offlineQuiz" \in DOMAIN PASSAGES[p]

\* setTimeout's return value: an id no pending timeout carries and that the ref
\* does not hold.  Ids are only compared for equality.
NewTimerId ==
  LET used == {t.id : t \in quizTimers} \cup {autoNextTimeoutRef}
  IN  CHOOSE i \in 1..(Cardinality(used) + 1) : i \notin used /\ \A j \in 1..(i - 1) : j \in used

\* Variant: nextQuestion without the clearTimeout.
ClearAutoNext_forgotten(timers) == timers

\* Variant: an accepted answer schedules no automatic advance.
handleSelectAnswer_noTimer(opt) ==
  IF isAnswered
  THEN /\ quizEvent' = [name |-> "answer", option |-> opt, accepted |-> FALSE, prev |-> score]
       /\ UNCHANGED <<selectedOption, isAnswered, score, autoNextTimeoutRef, quizTimers,
                      answerLog>>
  ELSE /\ selectedOption' = opt
       /\ isAnswered' = TRUE
       /\ score' = IF opt = questions[currentQIndex + 1].correctAnswerIndex
                   THEN score + 1 ELSE score
       /\ answerLog' = Append(answerLog, [item |-> currentQIndex, option |-> opt])
       /\ quizEvent' = [name |-> "answer", option |-> opt, accepted |-> TRUE, prev |-> score]
       /\ UNCHANGED <<autoNextTimeoutRef, quizTimers>>

\* clearTimeout(autoNextTimeoutRef.current), when the ref is set.
ClearAutoNext(timers) == {t \in timers : autoNextTimeoutRef = 0 \/ t.id # autoNextTimeoutRef}

\* The setup screen's select: setSelectedPassageId.
SelectPassage ==
  \E p \in 1..Len(PASSAGES) :
    /\ currentTab = "QUIZ"
    /\ stage = "SETUP"
    /\ selectedPassageId' = PASSAGES[p].id
    /\ quizEvent' = [name |-> "select", option |-> -1, accepted |-> FALSE,
                 prev |-> score]
    /\ UNCHANGED <<outsideVars, currentTab, readingVars, vocabVars, stage, questions,
                   currentQIndex, score, selectedOption, isAnswered, autoNextTimeoutRef,
                   quizTimers, orphanTimers, answerLog>>

\* START OFFLINE QUIZ: generateQuiz.
generateQuiz ==
  /\ currentTab = "QUIZ"
  /\ stage = "SETUP"
  /\ \E p \in FindPassage(selectedPassageId) :
       /\ stage' = "LOADING"
       /\ IF HasOfflineQuiz(p)
          THEN /\ questions' \in Shuffles(PASSAGES[p].offlineQuiz)
               /\ quizTimers' = quizTimers \cup {[kind |-> "load", id |-> NewTimerId,
                                                 idx |-> 0, len |-> 0]}
          ELSE UNCHANGED <<questions, quizTimers>>
  /\ quizEvent' = [name |-> "start", option |-> -1, accepted |-> FALSE,
                 prev |-> score]
  /\ UNCHANGED <<outsideVars, currentTab, readingVars, vocabVars, selectedPassageId,
                 currentQIndex, score, selectedOption, isAnswered, autoNextTimeoutRef,
                 orphanTimers, answerLog>>

\* Variant: the timeout enters PLAYING without clearing the score.
LoadTimerFires_keepsScore ==
  \E t \in quizTimers :
    /\ t.kind = "load"
    /\ quizTimers' = quizTimers \ {t}
    /\ stage' = "PLAYING"
    /\ currentQIndex' = 0
    /\ selectedOption' = -1
    /\ isAnswered' = FALSE
    /\ answerLog' = <<>>
    /\ quizEvent' = [name |-> "loaded", option |-> -1, accepted |-> FALSE, prev |-> score]
    /\ UNCHANGED <<outsideVars, currentTab, readingVars, vocabVars, selectedPassageId,
                   questions, score, autoNextTimeoutRef, orphanTimers>>

\* The timeout set by generateQuiz fires, 500 ms later.
LoadTimerFires ==
  \E t \in quizTimers :
    /\ t.kind = "load"
    /\ quizTimers' = quizTimers \ {t}
    /\ stage' = "PLAYING"
    /\ currentQIndex' = 0
    /\ score' = 0
    /\ selectedOption' = -1
    /\ isAnswered' = FALSE
    /\ answerLog' = <<>>
    /\ quizEvent' = [name |-> "loaded", option |-> -1, accepted |-> FALSE,
                 prev |-> score]
    /\ UNCHANGED <<outsideVars, currentTab, readingVars, vocabVars, selectedPassageId,
                   questions, autoNextTimeoutRef, orphanTimers>>

\* Variant: the last item leads back to the setup screen.
StageAfterLast_setup == "SETUP"

\* The stage nextQuestion leaves on the last item.
StageAfterLast == "RESULT"

\* nextQuestion as the render that saw (idx, len) closed over it; fired is the
\* set of timeouts that ran it.
nextQuestion(idx, len, fired) ==
  /\ quizTimers' = ClearAutoNext(quizTimers) \ fired
  /\ IF idx < len - 1
     THEN /\ currentQIndex' = currentQIndex + 1
          /\ selectedOption' = -1
          /\ isAnswered' = FALSE
          /\ UNCHANGED stage
     ELSE /\ stage' = StageAfterLast
          /\ UNCHANGED <<currentQIndex, selectedOption, isAnswered>>
  /\ UNCHANGED <<outsideVars, currentTab, readingVars, vocabVars, selectedPassageId,
                 questions, score, autoNextTimeoutRef, orphanTimers, answerLog>>

\* Variant: the handler without its isAnswered guard.
handleSelectAnswer_unguarded(opt) ==
  /\ selectedOption' = opt
  /\ isAnswered' = TRUE
  /\ score' = IF opt = questions[currentQIndex + 1].correctAnswerIndex
              THEN score + 1 ELSE score
  /\ autoNextTimeoutRef' = NewTimerId
  /\ quizTimers' = quizTimers \cup {[kind |-> "auto", id |-> NewTimerId,
                                    idx |-> currentQIndex, len |-> Len(questions)]}
  /\ answerLog' = Append(answerLog, [item |-> currentQIndex, option |-> opt])
  /\ quizEvent' = [name |-> "answer", option |-> opt, accepted |-> TRUE,
                 prev |-> score]

\* Variant: every accepted answer scores.
handleSelectAnswer_generous(opt) ==
  IF isAnswered
  THEN /\ quizEvent' = [name |-> "answer", option |-> opt, accepted |-> FALSE,
                 prev |-> score]
       /\ UNCHANGED <<selectedOption, isAnswered, score, autoNextTimeoutRef, quizTimers,
                      answerLog>>
  ELSE /\ selectedOption' = opt
       /\ isAnswered' = TRUE
       /\ score' = score + 1
       /\ autoNextTimeoutRef' = NewTimerId
       /\ quizTimers' = quizTimers \cup {[kind |-> "auto", id |-> NewTimerId,
                                         idx |-> currentQIndex, len |-> Len(questions)]}
       /\ answerLog' = Append(answerLog, [item |-> currentQIndex, option |-> opt])
       /\ quizEvent' = [name |-> "answer", option |-> opt, accepted |-> TRUE,
                 prev |-> score]

\* handleSelectAnswer(idx): the handler's own guard is modelled; the buttons'
\* disabled attribute is a second barrier in front of it.
handleSelectAnswer(opt) ==
  IF isAnswered
  THEN /\ quizEvent' = [name |-> "answer", option |-> opt, accepted |-> FALSE,
                 prev |-> score]
       /\ UNCHANGED <<selectedOption, isAnswered, score, autoNextTimeoutRef, quizTimers,
                      answerLog>>
  ELSE /\ selectedOption' = opt
       /\ isAnswered' = TRUE
       /\ score' = IF opt = questions[currentQIndex + 1].correctAnswerIndex
                   THEN score + 1 ELSE score
       /\ autoNextTimeoutRef' = NewTimerId
       /\ quizTimers' = quizTimers \cup {[kind |-> "auto", id |-> NewTimerId,
                                         idx |-> currentQIndex, len |-> Len(questions)]}
       /\ answerLog' = Append(answerLog, [item |-> currentQIndex, option |-> opt])
       /\ quizEvent' = [name |-> "answer", option |-> opt, accepted |-> TRUE,
                 prev |-> score]

\* A tap on an option of the item shown.
SelectAnswer ==
  /\ currentTab = "QUIZ"
  /\ stage = "PLAYING"
  /\ currentQIndex < Len(questions)
  /\ \E opt \in 0..(Len(questions[currentQIndex + 1].options) - 1) :
       handleSelectAnswer(opt)
  /\ UNCHANGED <<outsideVars, currentTab, readingVars, vocabVars, stage, selectedPassageId,
                 questions, currentQIndex, orphanTimers>>

\* "Next Question", shown once the item is answered.
ClickNext ==
  /\ currentTab = "QUIZ"
  /\ stage = "PLAYING"
  /\ isAnswered
  /\ nextQuestion(currentQIndex, Len(questions), {})
  /\ quizEvent' = [name |-> "next", option |-> -1, accepted |-> FALSE,
                 prev |-> score]

\* The timeout set by handleSelectAnswer fires, 3000 ms later.
AutoTimerFires ==
  \E t \in quizTimers :
    /\ t.kind = "auto"
    /\ nextQuestion(t.idx, t.len, {t})
    /\ quizEvent' = [name |-> "timer", option |-> -1, accepted |-> FALSE,
                 prev |-> score]

\* "Try Another Quiz" on the result screen: setStage('SETUP').
TryAnotherQuiz ==
  /\ currentTab = "QUIZ"
  /\ stage = "RESULT"
  /\ stage' = "SETUP"
  /\ quizEvent' = [name |-> "again", option |-> -1, accepted |-> FALSE,
                 prev |-> score]
  /\ UNCHANGED <<outsideVars, currentTab, readingVars, vocabVars, selectedPassageId, questions,
                 currentQIndex, score, selectedOption, isAnswered, autoNextTimeoutRef,
                 quizTimers, orphanTimers, answerLog>>

\* A timeout of an unmounted QuizView fires: its setters address a component
\* that is gone, and nothing changes.
OrphanTimerFires ==
  \E k \in orphanTimers :
    /\ orphanTimers' = orphanTimers \ {k}
    /\ UNCHANGED <<outsideVars, currentTab, readingVars, vocabVars, stage, selectedPassageId,
                   questions, currentQIndex, score, selectedOption, isAnswered,
                   autoNextTimeoutRef, quizTimers, answerLog, quizEvent>>

\* The quiz tab as its user and its timeouts can drive it.
NextQuiz ==
  \/ SetCurrentTab
  \/ SelectPassage
  \/ generateQuiz
  \/ LoadTimerFires
  \/ SelectAnswer
  \/ ClickNext
  \/ AutoTimerFires
  \/ TryAnotherQuiz
  \/ OrphanTimerFires

SpecQuiz == Init /\ [][NextQuiz]_vars

\* The user answers the item shown.
AnswerShown == ~isAnswered /\ SelectAnswer

\* The quiz tab with its timeouts firing in the end (setTimeout callbacks run
\* once their delay is over), and a user who answers what is shown.
SpecQuizLive ==
  /\ SpecQuiz
  /\ WF_vars(LoadTimerFires)
  /\ WF_vars(AutoTimerFires)
  /\ WF_vars(AnswerShown)

\* The application as its user can drive it.
NextApp ==
  \/ SetCurrentTab
  \/ TapWord
  \/ ModalSave
  \/ ModalClose
  \/ ClickDelete
  \/ StartReview
  \/ FlipCard
  \/ RateCard
  \/ BackToDictionary
  \/ Tick

SpecApp == Init /\ [][NextApp]_vars

\* ------------------------------------------------------- claims on the store

\* Positions of the entries of ws that carry id.
At(ws, id) == {i \in 1..Len(ws) : ws[i].id = id}

\* Some entry of ws has the key of w, ignoring case.
HasKey(ws, w) == \E i \in 1..Len(ws) : toLowerCase(ws[i].word) = toLowerCase(w)

\* The interval table as the specification states it: box -> days.
SpecDays(box) ==
  CASE box = 0 -> 0
    [] box = 1 -> 1
    [] box = 2 -> 3
    [] box = 3 -> 7
    [] box = 4 -> 14
    [] OTHER   -> 30

\* C1: from the empty store, after any sequence of add, remove and
\* updateProgress, no two saved words have the same key ignoring case.
C1_UniqueKeys ==
  \A i, j \in 1..Len(savedWords) :
    i # j => toLowerCase(savedWords[i].word) # toLowerCase(savedWords[j].word)

\* A full store on which an add of an already saved key has just been refused.
C1_Witness ==
  /\ last.op = "save"
  /\ Len(last.before) = 2
  /\ Len(savedWords) = 2

\* C2: an add whose key is already in the store (ignoring case) leaves the
\* store exactly as it was; the first-saved entry keeps its id, box and
\* next-review time.
C2_DuplicateAddNoOp ==
  (last.op = "save" /\ HasKey(last.before, last.cand.word)) =>
    /\ savedWords = last.before
    /\ \A i \in 1..Len(last.before) :
         toLowerCase(last.before[i].word) = toLowerCase(last.cand.word) =>
           /\ savedWords[i].id = last.before[i].id
           /\ savedWords[i].leitnerBox = last.before[i].leitnerBox
           /\ savedWords[i].nextReview = last.before[i].nextReview

\* A duplicate add, tapped in another paragraph, of a word that has review
\* progress and is not due.
C2_Witness ==
  /\ last.op = "save"
  /\ \E i \in 1..Len(last.before) :
       /\ toLowerCase(last.before[i].word) = toLowerCase(last.cand.word)
       /\ last.before[i].context # last.cand.context
       /\ last.before[i].leitnerBox >= 1
       /\ last.before[i].nextReview > last.at

\* C3: every saved word's box is an integer in 0..5, an index of the table.
C3_BoxInRange ==
  \A i \in 1..Len(savedWords) :
    /\ savedWords[i].leitnerBox \in 0..5
    /\ savedWords[i].leitnerBox < Len(REVIEW_INTERVALS)

\* A success recorded for a word that already was in the last box.
C3_Witness ==
  /\ last.op = "update" /\ last.success
  /\ \E i \in At(last.before, last.id) :
       last.before[i].leitnerBox = 5 /\ savedWords[i].leitnerBox = 5

\* C4: a success sets the box to min(box + 1, 5) and never lowers it; a box
\* is lowered only by a failure recorded for that word.
C4_SuccessPromotes ==
  /\ (last.op = "update" /\ last.success) =>
       \A i \in At(last.before, last.id) :
         /\ savedWords[i].leitnerBox = Min(last.before[i].leitnerBox + 1, 5)
         /\ savedWords[i].leitnerBox >= last.before[i].leitnerBox
  /\ \A i \in 1..Len(last.before), j \in 1..Len(savedWords) :
       (last.op # "save" /\ savedWords[j].id = last.before[i].id
          /\ savedWords[j].leitnerBox < last.before[i].leitnerBox) =>
         (last.op = "update" /\ ~last.success /\ last.id = savedWords[j].id)

\* The fifth success in a row: box 4 becomes box 5.
C4_Witness ==
  /\ last.op = "update" /\ last.success
  /\ \E i \in At(last.before, last.id) :
       last.before[i].leitnerBox = 4 /\ savedWords[i].leitnerBox = 5

\* C5: a failure sets the box to 0 and the next review to the current time,
\* whatever the box was, so the word is due at once.
C5_FailureResets ==
  (last.op = "update" /\ ~last.success) =>
    \A i \in At(last.before, last.id) :
      /\ savedWords[i].leitnerBox = 0
      /\ savedWords[i].nextReview = last.at
      /\ savedWords[i].nextReview <= now

\* A failure recorded for a word of the last box that was not due.
C5_Witness ==
  /\ last.op = "update" /\ ~last.success
  /\ \E i \in At(last.before, last.id) :
       /\ last.before[i].leitnerBox = 5
       /\ last.before[i].nextReview > last.at
       /\ savedWords[i].leitnerBox = 0

\* C6: after an update the word's next review is the current time plus the
\* interval of its new box (0, 1, 3, 7, 14, 30 days), and getNextReviewDate
\* gives a box above 5 the last interval.
C6_NextReviewFromNewBox ==
  /\ last.op = "update" =>
       \A i \in At(last.before, last.id) :
         savedWords[i].nextReview =
           last.at + SpecDays(savedWords[i].leitnerBox) * 24 * 60 * 60
  /\ \A b \in 0..(5 + MaxOver) :
       getNextReviewDate(b, now) = now + SpecDays(b) * 24 * 60 * 60

\* A success, after time has passed, that moves a word from box 1 to box 2.
C6_Witness ==
  /\ last.op = "update" /\ last.success /\ last.at > 0
  /\ \E i \in At(last.before, last.id) :
       /\ last.before[i].leitnerBox = 1
       /\ savedWords[i].leitnerBox = 2
       /\ savedWords[i].nextReview = last.at + 3 * 24 * 60 * 60

\* C7: an update changes only the box and the next review of the entry with
\* the given id, in place; with no such entry the store is unchanged.
C7_UpdateFrame ==
  last.op = "update" =>
    /\ Len(savedWords) = Len(last.before)
    /\ \A i \in 1..Len(last.before) :
         /\ last.before[i].id # last.id => savedWords[i] = last.before[i]
         /\ last.before[i].id = last.id =>
              savedWords[i] = [last.before[i] EXCEPT
                                 !.leitnerBox = savedWords[i].leitnerBox,
                                 !.nextReview = savedWords[i].nextReview]
    /\ At(last.before, last.id) = {} => savedWords = last.before

\* An update that changed the first of two saved words.
C7_Witness ==
  /\ last.op = "update"
  /\ Len(last.before) = 2
  /\ last.before[1].id = last.id
  /\ savedWords[1] # last.before[1]
  /\ last.before[2].leitnerBox >= 1

\* C8: a remove deletes exactly the entry with the given id and keeps the
\* others in their order; with no such entry the store is unchanged.
C8_RemoveFrame ==
  last.op = "delete" =>
    /\ \A k \in At(last.before, last.id) :
         savedWords = SubSeq(last.before, 1, k - 1)
                        \o SubSeq(last.before, k + 1, Len(last.before))
    /\ At(last.before, last.id) = {} => savedWords = last.before

\* The first of two saved words removed.
C8_Witness ==
  /\ last.op = "delete"
  /\ Len(last.before) = 2
  /\ last.before[1].id = last.id
  /\ savedWords = <<last.before[2]>>

\* C9: an add of a key the store does not hold appends the word as the last
\* entry, in box 0 and due now, and leaves the entries before it as they were.
C9_NewAddAppends ==
  (last.op = "save" /\ ~HasKey(last.before, last.cand.word)) =>
    /\ Len(savedWords) = Len(last.before) + 1
    /\ SubSeq(savedWords, 1, Len(last.before)) = last.before
    /\ savedWords[Len(savedWords)].id = last.id
    /\ savedWords[Len(savedWords)].word = last.cand.word
    /\ savedWords[Len(savedWords)].leitnerBox = 0
    /\ savedWords[Len(savedWords)].nextReview = last.at
    /\ savedWords[Len(savedWords)].nextReview <= now

\* A second word added, later, to a store whose first word has progress.
C9_Witness ==
  /\ last.op = "save" /\ last.at > 0
  /\ Len(last.before) = 1
  /\ last.before[1].leitnerBox >= 1
  /\ Len(savedWords) = 2

\* ------------------------------------------------ claims on the review view

\* C10: when a review session is started, every word placed in it is due
\* (nextReview <= now); a word whose next review lies ahead is not presented.
C10_SessionHoldsOnlyDueWords ==
  last.op = "start" =>
    \A k \in 1..Len(quizWords) : quizWords[k].nextReview <= last.at

\* ----------------------------------------------------- claims on due words

\* C11: dueWords(now) holds exactly the saved words with nextReview <= now,
\* each once and in store order; a word just rated successfully into box b >= 1
\* is due only once the b-th interval has elapsed.
C11_DueWordsExact ==
  LET due == dueWords(savedWords, now)
  IN  /\ \A i \in 1..Len(savedWords) :
           (savedWords[i].nextReview <= now) <=>
             (\E k \in 1..Len(due) : due[k] = savedWords[i])
      /\ \A k \in 1..Len(due) : \E i \in 1..Len(savedWords) : due[k] = savedWords[i]
      /\ Len(due) = Cardinality({i \in 1..Len(savedWords) : savedWords[i].nextReview <= now})
      /\ \A k, l \in 1..Len(due) :
           k < l => \A i \in At(savedWords, due[k].id), j \in At(savedWords, due[l].id) : i < j
      /\ (last.op = "update" /\ last.success) =>
           \A i \in At(last.before, last.id) :
             /\ savedWords[i].leitnerBox >= 1
             /\ (\E k \in 1..Len(due) : due[k].id = last.id) <=>
                  (now >= last.at + SpecDays(savedWords[i].leitnerBox) * 24 * 60 * 60)

\* Of two saved words one is not due and the other becomes due at this very
\* instant, a day after it was rated into box 1.
C11_Witness ==
  /\ Len(savedWords) = 2
  /\ Len(dueWords(savedWords, now)) = 1
  /\ \E i \in 1..2 :
       /\ savedWords[i].leitnerBox = 1
       /\ savedWords[i].nextReview = now
       /\ dueWords(savedWords, now) = <<savedWords[i]>>

\* The stage changes a mounted quiz view may make.
StageSteps ==
  { <<"SETUP", "LOADING">>, <<"LOADING", "PLAYING">>,
    <<"PLAYING", "RESULT">>, <<"RESULT", "SETUP">> }

\* C12: while the quiz view stays mounted its stage changes only along
\* SETUP -> LOADING (by start), LOADING -> PLAYING, PLAYING -> RESULT (by an
\* advance on the last item) and RESULT -> SETUP (by the user's request for a
\* new session); in particular never PLAYING -> SETUP, and RESULT is left by
\* nothing but that request.
C12_StageTransitions ==
  [][ (currentTab' = currentTab /\ stage' # stage) =>
        /\ <<stage, stage'>> \in StageSteps
        /\ stage = "SETUP" => quizEvent'.name = "start"
        /\ stage = "LOADING" => quizEvent'.name = "loaded"
        /\ stage = "PLAYING" =>
             /\ quizEvent'.name \in {"next", "timer"}
             /\ isAnswered
             /\ currentQIndex = Len(questions) - 1
        /\ stage = "RESULT" => quizEvent'.name = "again" ]_vars

\* A whole cycle: three items answered, the result shown, and the user back at
\* the setup screen by "Try Another Quiz".
C12_Witness ==
  /\ currentTab = "QUIZ"
  /\ stage = "SETUP"
  /\ quizEvent.name = "again"
  /\ Len(answerLog) = 3

\* C13: when the chosen passage has no pre-baked item list, starting leaves the
\* quiz in SETUP: the view is never in LOADING or PLAYING for such a passage.
C13_NoListStaysInSetup ==
  (currentTab = "QUIZ" /\ \A p \in FindPassage(selectedPassageId) : ~HasOfflineQuiz(p))
    => stage \notin {"LOADING", "PLAYING"}

\* C14: in PLAYING an answer is accepted at most once per item.  While the item
\* shown is answered and no advance happens, the score, the selected option
\* and the answered flag keep their values, whatever further answers arrive;
\* an answer is accepted only on an unanswered item, so no item has two
\* accepted answers.
C14_SingleAnswer ==
  /\ [][ (stage = "PLAYING" /\ isAnswered /\ stage' = stage /\ currentTab' = currentTab
             /\ currentQIndex' = currentQIndex)
           => UNCHANGED <<score, selectedOption, isAnswered, answerLog>> ]_vars
  /\ [][ (quizEvent'.name = "answer" /\ quizEvent' # quizEvent)
           => (quizEvent'.accepted <=> ~isAnswered) ]_vars
  /\ [](\A i, j \in 1..Len(answerLog) : answerLog[i].item = answerLog[j].item => i = j)

\* A second answer on an answered item, this time the correct option after a
\* wrong first one, was ignored: the score is still 0.
C14_Witness ==
  /\ stage = "PLAYING"
  /\ isAnswered
  /\ quizEvent.name = "answer"
  /\ ~quizEvent.accepted
  /\ quizEvent.option = questions[currentQIndex + 1].correctAnswerIndex
  /\ selectedOption # quizEvent.option
  /\ score = 0

\* The accepted answers of the session that hit the item's correct option.
CorrectAnswers ==
  {k \in 1..Len(answerLog) :
     answerLog[k].option = questions[answerLog[k].item + 1].correctAnswerIndex}

\* C15: throughout a session (PLAYING and RESULT) the score is the number of
\* items visited so far whose accepted answer was the correct option, so
\* 0 <= score <= number of items; the visited items are answered in order, one
\* answer each; at RESULT every item has been answered and the pair shown is
\* (number of correct answers, number of items).
C15_ScoreCountsCorrect ==
  stage \in {"PLAYING", "RESULT"} =>
    /\ score = Cardinality(CorrectAnswers)
    /\ 0 <= score /\ score <= Len(questions)
    /\ \A k \in 1..Len(answerLog) : answerLog[k].item = k - 1
    /\ stage = "PLAYING" =>
         Len(answerLog) = IF isAnswered THEN currentQIndex + 1 ELSE currentQIndex
    /\ stage = "RESULT" =>
         /\ Len(answerLog) = Len(questions)
         /\ <<score, Len(questions)>> = <<Cardinality(CorrectAnswers), Len(answerLog)>>

\* Correct, incorrect, correct on three items: the result screen shows 2 / 3.
C15_Witness ==
  /\ stage = "RESULT"
  /\ Len(questions) = 3
  /\ Len(answerLog) = 3
  /\ CorrectAnswers = {1, 3}
  /\ score = 2

\* C16: every step into PLAYING ends with currentQIndex = 0, score = 0, no
\* selected option and isAnswered = FALSE, also when an earlier session of the
\* same view left a score, an index and an answered item behind.
C16_FreshSession ==
  [][ (stage # "PLAYING" /\ stage' = "PLAYING") =>
        /\ currentQIndex' = 0
        /\ score' = 0
        /\ selectedOption' = -1
        /\ isAnswered' = FALSE ]_vars

\* A second session has just entered PLAYING; the first one had ended with
\* two correct answers, and none of it is left.
C16_Witness ==
  /\ stage = "PLAYING"
  /\ quizEvent.name = "loaded"
  /\ quizEvent.prev = 2
  /\ currentQIndex = 0 /\ score = 0 /\ selectedOption = -1 /\ ~isAnswered

\* The kinds of text a start cannot turn into a list of saved words.
MissingOrCorrupt(kind) == kind # "list"

\* C17: a start never fails the application and never leaves a store that is
\* not a list; over a missing or corrupt persisted value the store starts as
\* the empty list.
C17_LoadToleratesCorruptData ==
  /\ app # "failed"
  /\ app = "running" => storeShape = "list"
  /\ (app = "running" /\ last.op = "init" /\ MissingOrCorrupt(loadedFrom))
       => savedWords = <<>>

\* The texts of the segments, joined in order.
RECURSIVE JoinTexts(_)
JoinTexts(segs) ==
  IF segs = <<>> THEN <<>> ELSE Head(segs).text \o JoinTexts(Tail(segs))

\* C18: for every paragraph, the texts of the segments joined in order are the
\* paragraph, character for character.  A segment is a non-word exactly when
\* it is blank (a whitespace run, or the empty piece before a leading or after
\* a trailing run); word segments hold no whitespace, so every whitespace
\* character sits in a non-word segment; a run is never cut in two; ids count
\* the segments from 0.
C18_TokenizerRoundTrip ==
  segments # <<>> =>
    /\ JoinTexts(segments) = paragraph
    /\ \A i \in 1..Len(segments) :
         /\ segments[i].id = i - 1
         /\ segments[i].isWord <=> ~IsBlank(segments[i].text)
         /\ segments[i].isWord => \A k \in 1..Len(segments[i].text) : ~IsSpace(segments[i].text[k])
         /\ (i < Len(segments) /\ segments[i].text # <<>> /\ segments[i + 1].text # <<>>)
              => (segments[i].isWord # segments[i + 1].isWord)

\* A paragraph with a leading run of two blanks and a trailing blank, tokenized:
\* empty piece, run, word, run, empty piece.
C18_Witness ==
  /\ paragraph = <<" ", " ", "a", " ">>
  /\ Len(segments) = 5
  /\ segments[2].text = <<" ", " ">>
  /\ ~segments[2].isWord
  /\ segments[3].isWord

\* C19: normalizing a normalized key returns it unchanged: the key of every
\* word segment is a fixed point of the cleanup, and the key the dialog derives
\* from the word it is given is the key the tokenizer produced.
C19_NormalizeIdempotent ==
  /\ \A i \in 1..Len(segments) :
       segments[i].isWord => cleanWord(segments[i].word) = segments[i].word
  /\ tapped # 0 => modalKey = segments[tapped].word

ErrorOutcome ==
  \/ req.method # "POST" /\ ~(req.variant = "firebase" /\ req.method = "OPTIONS")
  \/ req.method = "POST" /\ BodyThrows
  \/ req.method = "POST" /\ req.body = "string"
  \/ req.method = "POST" /\ req.action \notin {"translate", "quiz"}
  \/ upstream = "throws"

\* C21: a handled request ends with exactly one response, and every error
\* outcome is a response with a status outside 200..299 whose body is a JSON
\* error payload.
C21_ErrorsAreJson ==
  /\ Len(responses) <= 1
  /\ epPc = "done" =>
       /\ Len(responses) = 1
       /\ ErrorOutcome =>
            /\ responses[1].status \notin 200..299
            /\ responses[1].json

\* The auto-advance timeouts pending for the mounted quiz view.
AutoTimers == {t \in quizTimers : t.kind = "auto"}

\* C22: an answered item is advanced exactly once, by its timeout or by the
\* button, whichever comes first.  A pending auto-advance timeout is always
\* the one of the item shown, which is answered, and it is the only one; so
\* none is left for a later item or for RESULT.  Every advance starts from an
\* answered item, moves one item on (or to RESULT) and leaves no timeout
\* pending, whether the button or the timeout caused it.
C22_OneAdvancePerAnswer ==
  /\ [](/\ Cardinality(AutoTimers) <= 1
        /\ \A t \in AutoTimers :
             /\ stage = "PLAYING"
             /\ isAnswered
             /\ t.idx = currentQIndex
             /\ t.len = Len(questions)
             /\ t.id = autoNextTimeoutRef
        /\ (stage = "PLAYING" /\ isAnswered) => Cardinality(AutoTimers) = 1)
  /\ [][ (/\ currentTab' = currentTab
          /\ stage = "PLAYING"
          /\ (stage' # "PLAYING" \/ currentQIndex' # currentQIndex \/ isAnswered' # isAnswered)
          /\ isAnswered)
           => /\ quizEvent'.name \in {"next", "timer"}
              /\ AutoTimers' = {}
              /\ \/ stage' = "PLAYING" /\ currentQIndex' = currentQIndex + 1 /\ ~isAnswered'
                 \/ stage' = "RESULT" /\ currentQIndex = Len(questions) - 1 ]_vars

\* The button came first: the second item is shown unanswered and the timeout
\* of the first is gone.
C22_Witness ==
  /\ stage = "PLAYING"
  /\ quizEvent.name = "next"
  /\ currentQIndex = 1
  /\ ~isAnswered
  /\ Len(answerLog) = 1
  /\ quizTimers = {}

\* C23: an answered item is advanced in the end without the user doing
\* anything: the view moves to the next item, unanswered and with no option
\* selected, or to RESULT; and a session in which the user answers every item
\* shown, from any item on, reaches RESULT.  Both hold as long as the user
\* stays on the quiz tab.
C23_QuizLiveness ==
  /\ \A i \in 0..(Len(OFFLINE_QUIZ) - 1) :
       (currentTab = "QUIZ" /\ stage = "PLAYING" /\ isAnswered /\ currentQIndex = i)
         ~> \/ currentTab # "QUIZ"
            \/ stage = "RESULT"
            \/ stage = "PLAYING" /\ currentQIndex = i + 1 /\ ~isAnswered /\ selectedOption = -1
  /\ (currentTab = "QUIZ" /\ stage = "PLAYING" /\ currentQIndex < Len(questions))
       ~> (currentTab # "QUIZ" \/ stage = "RESULT")

\* The timeout of the last item brought the session to RESULT.
C23_Witness ==
  /\ currentTab = "QUIZ"
  /\ stage = "RESULT"
  /\ quizEvent.name = "timer"
  /\ Len(answerLog) = Len(questions)
  /\ quizTimers = {}

\* C24: tearing the quiz view down cancels its pending auto-advance timeout:
\* no such timeout of a view that is gone is still pending, so none can fire.
C24_UnmountCancelsTimer == "auto" \notin orphanTimers

\* C25: whenever the page runs on a list store, the text under the storage key
\* parses to a list equal to the in-memory store, after every add, remove and
\* update.  A reload leaves that text as it is, and the start after it reads
\* the store back from it, so the store after a reload is the store before it.
C25_PersistedEqualsStore ==
  /\ [](Usable => /\ parse(storage).ok
                  /\ parse(storage).val = JsList(savedWords))
  /\ [][ (Usable /\ app' = "off") =>
           /\ parse(storage').ok
           /\ parse(storage').val = JsList(savedWords) ]_vars
  /\ [][ (app = "off" /\ app' = "running" /\ parse(storage).ok /\ parse(storage).val.t = "list")
           => /\ JsList(savedWords') = parse(storage).val
              /\ parse(storage').val = parse(storage).val ]_vars

\* A start has just read back two words saved by the run before the reload,
\* one of them promoted to box 1.
C25_Witness ==
  /\ Usable
  /\ last.op = "init"
  /\ loadedFrom = "list"
  /\ Len(savedWords) = 2
  /\ \E i \in 1..2 : savedWords[i].leitnerBox = 1
  /\ parse(storage).val.v = savedWords

\* C26: whenever the stage is PLAYING there is a current item,
\* 0 <= currentQIndex < number of items; so PLAYING is never entered with an
\* empty item list and no advance moves past the last item.
C26_CurrentItemExists ==
  stage = "PLAYING" => (0 <= currentQIndex /\ currentQIndex < Len(questions))

\* C27: a review session begins at its first card, also the second session of
\* the same view; and 'Session Complete' is shown only after every card of the
\* session was presented and rated, the last card last.
C27_SessionShowsEveryCard ==
  /\ (isQuizMode /\ last.op = "start") => currentIdx = 0
  /\ (isQuizMode /\ currentIdx >= Len(quizWords)) =>
       /\ currentIdx = Len(quizWords)
       /\ last.op = "update"
       /\ last.id = quizWords[Len(quizWords)].id

====
